---- MODULE Spec2Model ----
(***************************************************************************)
(* Paper trading execution and risk engine (server/paper_trading_engine.py *)
(* with the record types of server/schemas.py).                            *)
(*                                                                         *)
(* Units.  Prices are integers in cents (the engine rounds every fill      *)
(* price to 2 decimals).  All other money amounts (cash, commission,       *)
(* average prices, P&L) are exact rationals in cents, written <<n, d>>     *)
(* with d >= 1 in lowest terms; the Python code computes them in binary    *)
(* floating point.  None for an optional price is NoPrice (0): the code    *)
(* tests optional prices by truthiness and the schema forbids 0.           *)
(* The time-in-force field is copied from the request and never read; it   *)
(* is left out of the records.                                             *)
(***************************************************************************)
EXTENDS Integers, Sequences, FiniteSets, TLC

\* ------------------------------------------------------------------ bounds
MaxPrice == 2
MaxQty == 2
MaxOrders == 2
MaxTs == 1

Symbols == {"XYZ", "ABC"}
Prices == 1..MaxPrice
Qtys == 1..MaxQty
Volumes == {0, 10, 25}
Timestamps == 1..MaxTs
TieBreaks == {TRUE, FALSE}

\* --------------------------------------------------------------- rationals
Abs(n) == IF n < 0 THEN -n ELSE n
Sign(n) == IF n < 0 THEN -1 ELSE 1

RECURSIVE Gcd(_, _)
Gcd(a, b) == IF b = 0 THEN a ELSE Gcd(b, a % b)

Rat(n, d) ==
    LET g == Gcd(Abs(n), Abs(d))
    IN  IF n = 0 THEN <<0, 1>> ELSE <<Sign(d) * (n \div g), Abs(d) \div g>>
I(n) == <<n, 1>>
RAdd(a, b) == Rat(a[1] * b[2] + b[1] * a[2], a[2] * b[2])
RNeg(a) == <<-a[1], a[2]>>
RSub(a, b) == RAdd(a, RNeg(b))
RMul(a, b) == Rat(a[1] * b[1], a[2] * b[2])
RDiv(a, b) == Rat(a[1] * b[2], a[2] * b[1])
RLe(a, b) == a[1] * b[2] <= b[1] * a[2]
RLt(a, b) == a[1] * b[2] < b[1] * a[2]
RMax(a, b) == IF RLt(a, b) THEN b ELSE a
RMin(a, b) == IF RLt(b, a) THEN b ELSE a
RAbs(a) == <<Abs(a[1]), a[2]>>
RFloor(a) == a[1] \div a[2]

\* Python round(x, 2) on an amount in cents: nearest integer.  A value
\* exactly halfway between two cents is decided by the binary representation
\* of the float; `up` stands for that outcome.
Round2(x, up) ==
    LET f == RFloor(x)
        r == x[1] - f * x[2]
    IN  IF 2 * r < x[2] THEN f
        ELSE IF 2 * r > x[2] THEN f + 1
        ELSE IF up THEN f + 1 ELSE f

RECURSIVE RSumSeq(_)
RSumSeq(s) == IF s = <<>> THEN I(0) ELSE RAdd(Head(s), RSumSeq(Tail(s)))

\* ------------------------------------------------------------------ schemas
NoPrice == 0
NoneRat == <<0, 0>>

OrderSide == {"BUY", "SELL"}
OrderType == {"MKT", "LMT", "STP", "STP_LMT"}
OrderStatus == {"NEW", "WORKING", "PARTIALLY_FILLED", "FILLED", "CANCELED", "REJECTED"}

\* OrderCreate: qty > 0, optional prices > 0.  The two validators are not
\* run for a price that is absent, so every combination of type and optional
\* prices is a request the engine can receive.
OrderCreate ==
    [symbol : Symbols, side : OrderSide, type : OrderType, qty : Qtys,
     limit_price : Prices \cup {NoPrice}, stop_price : Prices \cup {NoPrice}]

\* The requests submitted: the optional price a type does not use is absent.
Requests ==
    {r \in OrderCreate :
        /\ r.type \in {"MKT", "STP"} => r.limit_price = NoPrice
        /\ r.type \in {"MKT", "LMT"} => r.stop_price = NoPrice}

\* A run trades one family of orders: single-share market orders on both
\* symbols, or market and limit orders of every size on one symbol, or stop
\* orders, or stop-limit orders, of the largest size on one symbol.
Sessions == {"market", "limit", "stop", "stop_limit"}
SessionSymbols(s) == IF s = "market" THEN Symbols ELSE {"XYZ"}
SessionTypes(s) ==
    IF s = "market" THEN {"MKT"}
    ELSE IF s = "limit" THEN {"MKT", "LMT"}
    ELSE IF s = "stop" THEN {"STP"}
    ELSE {"STP_LMT"}
Menu(s) ==
    {r \in Requests :
        /\ r.symbol \in SessionSymbols(s)
        /\ r.type \in SessionTypes(s)
        /\ s = "market" => r.qty = 1
        /\ s \in {"stop", "stop_limit"} => r.qty = MaxQty}

\* Bar: open, high, low, close > 0, volume >= 0.  The validator of `high`
\* runs before `low` has been validated, so high < low is not rejected.
Bar ==
    [ts : Timestamps, open : Prices, high : Prices, low : Prices,
     close : Prices, volume : Volumes]

\* Fill: price > 0, qty > 0, commission >= 0, else construction raises.
FillValid(price, qty, commission) ==
    /\ price > 0
    /\ qty > 0
    /\ RLe(I(0), commission)

DefaultRiskLimits ==
    [max_leverage |-> I(2), max_position_size_pct |-> <<1, 10>>,
     max_order_notional |-> I(5000000), max_symbols |-> 20]

\* ------------------------------------------------------------------- state
VARIABLES
    risk_limits,        \* RiskLimits given to the constructor
    initial_cash,       \* rational, cents
    cash,               \* rational, cents
    orders,             \* registry, in insertion order; an order's id is its index
    positions,          \* symbol -> Position, for the symbols that have one
    fills,              \* fill log
    current_prices,     \* symbol -> last bar close
    current_timestamp,
    session,            \* which family of requests the client of this run submits
    probe               \* input and result of one call of the fill simulator

vars == <<risk_limits, initial_cash, cash, orders, positions, fills,
          current_prices, current_timestamp, session, probe>>

\* What no operation of the engine changes.
setup == <<risk_limits, initial_cash, session, probe>>

\* ---------------------------------------------------------- account helpers
MarkPrice(p) ==
    IF p.symbol \in DOMAIN current_prices THEN current_prices[p.symbol]
    ELSE p.current_price

RECURSIVE PositionsValueOf(_, _)
PositionsValueOf(ps, S) ==
    IF S = {} THEN 0
    ELSE LET s == CHOOSE y \in S : TRUE
         IN  Abs(ps[s].qty) * MarkPrice(ps[s]) + PositionsValueOf(ps, S \ {s})

RECURSIVE UnrealizedOf(_, _)
UnrealizedOf(ps, S) ==
    IF S = {} THEN I(0)
    ELSE LET s == CHOOSE y \in S : TRUE
         IN  RAdd(ps[s].unrealized_pnl, UnrealizedOf(ps, S \ {s}))

RECURSIVE RealizedOf(_, _)
RealizedOf(ps, S) ==
    IF S = {} THEN I(0)
    ELSE LET s == CHOOSE y \in S : TRUE
         IN  RAdd(ps[s].realized_pnl, RealizedOf(ps, S \ {s}))

positions_value == PositionsValueOf(positions, DOMAIN positions)

calculate_equity ==
    RAdd(RAdd(cash, I(positions_value)), UnrealizedOf(positions, DOMAIN positions))

calculate_leverage ==
    IF RLe(calculate_equity, I(0)) THEN I(0)
    ELSE RDiv(I(positions_value), calculate_equity)

calculate_buying_power ==
    RMax(I(0), RSub(RMul(calculate_equity, risk_limits.max_leverage), I(positions_value)))

get_account ==
    LET pv == positions_value
        unrealized == UnrealizedOf(positions, DOMAIN positions)
        equity == RAdd(RAdd(cash, I(pv)), unrealized)
    IN  [cash |-> cash,
         equity |-> equity,
         buying_power |-> calculate_buying_power,
         positions_value |-> pv,
         unrealized_pnl |-> unrealized,
         realized_pnl |-> RealizedOf(positions, DOMAIN positions),
         leverage |-> IF RLt(I(0), equity) THEN RDiv(I(pv), equity) ELSE I(0),
         margin_used |-> RMax(I(0), RSub(I(pv), cash)),
         timestamp |-> current_timestamp]

\* --------------------------------------------------------------- risk check
\* Variant: only a limit price counts as a reference price.
RefPrice_limit_only(req) ==
    IF req.limit_price # NoPrice THEN req.limit_price ELSE 0

RefPrice(req) ==
    IF req.limit_price # NoPrice THEN req.limit_price
    ELSE IF req.symbol \in DOMAIN current_prices THEN current_prices[req.symbol]
    ELSE 0

\* Variant: the check stops at the first violation it finds.
risk_check_first_violation_only(req) ==
    LET current_leverage == calculate_leverage
        price == RefPrice(req)
        order_notional == price * req.qty
        equity == calculate_equity
        max_position_value == RMul(equity, risk_limits.max_position_size_pct)
        current_qty == IF req.symbol \in DOMAIN positions
                       THEN positions[req.symbol].qty ELSE 0
        resulting_qty == current_qty + (IF req.side = "BUY" THEN req.qty ELSE -req.qty)
        resulting_position_value == Abs(resulting_qty * price)
        buying_power == calculate_buying_power
        resulting_positions_value ==
            positions_value + (IF req.side = "BUY" THEN order_notional ELSE -order_notional)
        resulting_leverage ==
            IF RLt(I(0), equity) THEN RDiv(I(resulting_positions_value), equity) ELSE I(0)
        v1 == IF RLt(risk_limits.max_order_notional, I(order_notional))
              THEN <<"Order notional exceeds limit">> ELSE <<>>
        v2 == IF RLt(max_position_value, I(resulting_position_value))
              THEN <<"Resulting position exceeds limit">> ELSE <<>>
        v3 == IF req.symbol \notin DOMAIN positions
                 /\ Cardinality(DOMAIN positions) >= risk_limits.max_symbols
              THEN <<"Max symbols limit reached">> ELSE <<>>
        v4 == IF req.side = "BUY" /\ RLt(buying_power, I(order_notional))
              THEN <<"Insufficient buying power">> ELSE <<>>
        v5 == IF RLt(risk_limits.max_leverage, resulting_leverage)
              THEN <<"Resulting leverage exceeds limit">> ELSE <<>>
        violations == IF v1 # <<>> THEN v1 ELSE IF v2 # <<>> THEN v2 ELSE IF v3 # <<>> THEN v3
                      ELSE IF v4 # <<>> THEN v4 ELSE v5
    IN  IF price = 0
        THEN [passed |-> FALSE,
              violations |-> <<"No price data">>,
              current_leverage |-> current_leverage,
              resulting_leverage |-> current_leverage]
        ELSE [passed |-> Len(violations) = 0,
              violations |-> violations,
              current_leverage |-> current_leverage,
              resulting_leverage |-> resulting_leverage]

risk_check(req) ==
    LET current_leverage == calculate_leverage
        price == RefPrice(req)
        order_notional == price * req.qty
        equity == calculate_equity
        max_position_value == RMul(equity, risk_limits.max_position_size_pct)
        current_qty == IF req.symbol \in DOMAIN positions
                       THEN positions[req.symbol].qty ELSE 0
        resulting_qty == current_qty + (IF req.side = "BUY" THEN req.qty ELSE -req.qty)
        resulting_position_value == Abs(resulting_qty * price)
        buying_power == calculate_buying_power
        resulting_positions_value ==
            positions_value + (IF req.side = "BUY" THEN order_notional ELSE -order_notional)
        resulting_leverage ==
            IF RLt(I(0), equity) THEN RDiv(I(resulting_positions_value), equity) ELSE I(0)
        v1 == IF RLt(risk_limits.max_order_notional, I(order_notional))
              THEN <<"Order notional exceeds limit">> ELSE <<>>
        v2 == IF RLt(max_position_value, I(resulting_position_value))
              THEN <<"Resulting position exceeds limit">> ELSE <<>>
        v3 == IF req.symbol \notin DOMAIN positions
                 /\ Cardinality(DOMAIN positions) >= risk_limits.max_symbols
              THEN <<"Max symbols limit reached">> ELSE <<>>
        v4 == IF req.side = "BUY" /\ RLt(buying_power, I(order_notional))
              THEN <<"Insufficient buying power">> ELSE <<>>
        v5 == IF RLt(risk_limits.max_leverage, resulting_leverage)
              THEN <<"Resulting leverage exceeds limit">> ELSE <<>>
        violations == v1 \o v2 \o v3 \o v4 \o v5
    IN  IF price = 0
        THEN [passed |-> FALSE,
              violations |-> <<"No price data">>,
              current_leverage |-> current_leverage,
              resulting_leverage |-> current_leverage]
        ELSE [passed |-> Len(violations) = 0,
              violations |-> violations,
              current_leverage |-> current_leverage,
              resulting_leverage |-> resulting_leverage]

\* ----------------------------------------------------------- fill simulator
tick_size == 1
slippage_k == <<1, 100>>
participation_rate == <<1, 10>>
commission_per_share == <<1, 10>>

NoFill == [kind |-> "none"]
RaisedFill == [kind |-> "raise"]

\* Fill(...): the record, or a validation error when a constraint fails.
MakeFill(id, order, price, qty, commission, slippage, ts) ==
    IF FillValid(price, qty, commission)
    THEN [kind |-> "fill", id |-> id, order_id |-> order.id, symbol |-> order.symbol,
          side |-> order.side, price |-> price, qty |-> qty,
          commission |-> commission, slippage |-> slippage, timestamp |-> ts]
    ELSE RaisedFill

check_stop_trigger(order, bar) ==
    IF order.stop_price = NoPrice THEN FALSE
    ELSE IF order.side = "BUY" THEN bar.high >= order.stop_price
    ELSE bar.low <= order.stop_price

\* Variant: the slippage is not floored at one tick.
fill_market_order_no_tick_floor(order, bar, id, up) ==
    LET base_price == bar.open
        volume_ratio ==
            IF bar.volume > 0
            THEN RMin(Rat(order.remaining_qty, bar.volume), participation_rate)
            ELSE participation_rate
        slippage_dollars == RMul(RMul(slippage_k, volume_ratio), I(base_price))
        raw_price == IF order.side = "BUY"
                     THEN RAdd(I(base_price), slippage_dollars)
                     ELSE RSub(I(base_price), slippage_dollars)
        fill_price == Round2(raw_price, up)
        commission == RMul(I(order.remaining_qty), commission_per_share)
    IN  MakeFill(id, order, fill_price, order.remaining_qty, commission,
                 RMul(slippage_dollars, I(order.remaining_qty)), bar.ts)

fill_market_order(order, bar, id, up) ==
    LET base_price == bar.open
        volume_ratio ==
            IF bar.volume > 0
            THEN RMin(Rat(order.remaining_qty, bar.volume), participation_rate)
            ELSE participation_rate
        slippage_dollars ==
            RMax(I(tick_size), RMul(RMul(slippage_k, volume_ratio), I(base_price)))
        raw_price == IF order.side = "BUY"
                     THEN RAdd(I(base_price), slippage_dollars)
                     ELSE RSub(I(base_price), slippage_dollars)
        fill_price == Round2(raw_price, up)
        commission == RMul(I(order.remaining_qty), commission_per_share)
    IN  MakeFill(id, order, fill_price, order.remaining_qty, commission,
                 RMul(slippage_dollars, I(order.remaining_qty)), bar.ts)

\* Variant: a partial fill is priced at the limit, without the tick.
fill_limit_order_at_limit(order, bar, id, up) ==
    LET max_fillable == RFloor(RMul(I(bar.volume), participation_rate))
        fill_qty == IF order.remaining_qty < max_fillable
                    THEN order.remaining_qty ELSE max_fillable
        partial == fill_qty < order.remaining_qty
        raw_price == order.limit_price
        partial_slippage == IF partial THEN I(tick_size * fill_qty) ELSE I(0)
        fill_price == Round2(I(raw_price), up)
        commission == RMul(I(fill_qty), commission_per_share)
    IN  IF order.limit_price = NoPrice THEN NoFill
        ELSE IF ~(bar.low <= order.limit_price /\ order.limit_price <= bar.high) THEN NoFill
        ELSE IF fill_qty = 0 THEN NoFill
        ELSE MakeFill(id, order, fill_price, fill_qty, commission, partial_slippage, bar.ts)

\* Variant: the fill is for the participation cap, not capped at the
\* order's remaining quantity.
fill_limit_order_uncapped(order, bar, id, up) ==
    LET max_fillable == RFloor(RMul(I(bar.volume), participation_rate))
        fill_qty == max_fillable
        partial == fill_qty < order.remaining_qty
        raw_price == IF ~partial THEN order.limit_price
                     ELSE IF order.side = "BUY" THEN order.limit_price + tick_size
                     ELSE order.limit_price - tick_size
        partial_slippage == IF partial THEN I(tick_size * fill_qty) ELSE I(0)
        fill_price == Round2(I(raw_price), up)
        commission == RMul(I(fill_qty), commission_per_share)
    IN  IF order.limit_price = NoPrice THEN NoFill
        ELSE IF ~(bar.low <= order.limit_price /\ order.limit_price <= bar.high) THEN NoFill
        ELSE IF fill_qty = 0 THEN NoFill
        ELSE MakeFill(id, order, fill_price, fill_qty, commission, partial_slippage, bar.ts)

fill_limit_order(order, bar, id, up) ==
    LET max_fillable == RFloor(RMul(I(bar.volume), participation_rate))
        fill_qty == IF order.remaining_qty < max_fillable
                    THEN order.remaining_qty ELSE max_fillable
        partial == fill_qty < order.remaining_qty
        raw_price == IF ~partial THEN order.limit_price
                     ELSE IF order.side = "BUY" THEN order.limit_price + tick_size
                     ELSE order.limit_price - tick_size
        partial_slippage == IF partial THEN I(tick_size * fill_qty) ELSE I(0)
        fill_price == Round2(I(raw_price), up)
        commission == RMul(I(fill_qty), commission_per_share)
    IN  IF order.limit_price = NoPrice THEN NoFill
        ELSE IF ~(bar.low <= order.limit_price /\ order.limit_price <= bar.high) THEN NoFill
        ELSE IF fill_qty = 0 THEN NoFill
        ELSE MakeFill(id, order, fill_price, fill_qty, commission, partial_slippage, bar.ts)

try_fill_order(order, bar, id, up) ==
    IF order.type = "MKT" \/ (order.type = "STP" /\ order.status = "WORKING")
    THEN fill_market_order(order, bar, id, up)
    ELSE IF order.type \in {"LMT", "STP_LMT"}
    THEN fill_limit_order(order, bar, id, up)
    ELSE NoFill

\* ---------------------------------------------------------- position ledger
\* Variant: P&L is realized on the whole fill, also on the part that reverses.
update_position_whole_fill_realized(ps, fill) ==
    LET signed == IF fill.side = "BUY" THEN fill.qty ELSE -fill.qty
        fresh == [symbol |-> fill.symbol,
                  qty |-> signed,
                  avg_price |-> I(fill.price),
                  cost_basis |-> I(fill.price * fill.qty),
                  current_price |-> fill.price,
                  market_value |-> fill.price * fill.qty,
                  unrealized_pnl |-> I(0),
                  realized_pnl |-> I(0),
                  last_updated |-> fill.timestamp]
        old == ps[fill.symbol]
        old_qty == old.qty
        new_qty == old_qty + signed
        adding == (old_qty > 0 /\ fill.side = "BUY") \/ (old_qty < 0 /\ fill.side = "SELL")
        total_cost == RAdd(RMul(old.avg_price, I(Abs(old_qty))), I(fill.price * fill.qty))
        closed_qty == fill.qty
        realized == RMul(RMul(RSub(I(fill.price), old.avg_price), I(closed_qty)),
                         I(IF old_qty > 0 THEN 1 ELSE -1))
        avg_price ==
            IF adding
            THEN (IF new_qty # 0 THEN RDiv(total_cost, I(Abs(new_qty))) ELSE I(fill.price))
            ELSE IF new_qty = 0 THEN I(0)
            ELSE IF Abs(new_qty) < Abs(old_qty) THEN old.avg_price
            ELSE I(fill.price)
        cost_basis ==
            IF adding THEN RMul(avg_price, I(Abs(new_qty)))
            ELSE IF new_qty = 0 THEN I(0)
            ELSE IF Abs(new_qty) < Abs(old_qty) THEN RMul(old.avg_price, I(Abs(new_qty)))
            ELSE I(fill.price * Abs(new_qty))
        updated == [symbol |-> old.symbol,
                    qty |-> new_qty,
                    avg_price |-> avg_price,
                    cost_basis |-> cost_basis,
                    current_price |-> fill.price,
                    market_value |-> fill.price * Abs(new_qty),
                    unrealized_pnl |->
                        IF new_qty # 0
                        THEN RMul(RSub(I(fill.price), avg_price), I(new_qty))
                        ELSE I(0),
                    realized_pnl |->
                        IF adding THEN old.realized_pnl
                        ELSE RAdd(old.realized_pnl, realized),
                    last_updated |-> fill.timestamp]
    IN  [s \in DOMAIN ps \cup {fill.symbol} |->
            IF s # fill.symbol THEN ps[s]
            ELSE IF fill.symbol \notin DOMAIN ps THEN fresh
            ELSE updated]

update_position(ps, fill) ==
    LET signed == IF fill.side = "BUY" THEN fill.qty ELSE -fill.qty
        fresh == [symbol |-> fill.symbol,
                  qty |-> signed,
                  avg_price |-> I(fill.price),
                  cost_basis |-> I(fill.price * fill.qty),
                  current_price |-> fill.price,
                  market_value |-> fill.price * fill.qty,
                  unrealized_pnl |-> I(0),
                  realized_pnl |-> I(0),
                  last_updated |-> fill.timestamp]
        old == ps[fill.symbol]
        old_qty == old.qty
        new_qty == old_qty + signed
        adding == (old_qty > 0 /\ fill.side = "BUY") \/ (old_qty < 0 /\ fill.side = "SELL")
        total_cost == RAdd(RMul(old.avg_price, I(Abs(old_qty))), I(fill.price * fill.qty))
        closed_qty == IF Abs(old_qty) < fill.qty THEN Abs(old_qty) ELSE fill.qty
        realized == RMul(RMul(RSub(I(fill.price), old.avg_price), I(closed_qty)),
                         I(IF old_qty > 0 THEN 1 ELSE -1))
        avg_price ==
            IF adding
            THEN (IF new_qty # 0 THEN RDiv(total_cost, I(Abs(new_qty))) ELSE I(fill.price))
            ELSE IF new_qty = 0 THEN I(0)
            ELSE IF Abs(new_qty) < Abs(old_qty) THEN old.avg_price
            ELSE I(fill.price)
        cost_basis ==
            IF adding THEN RMul(avg_price, I(Abs(new_qty)))
            ELSE IF new_qty = 0 THEN I(0)
            ELSE IF Abs(new_qty) < Abs(old_qty) THEN RMul(old.avg_price, I(Abs(new_qty)))
            ELSE I(fill.price * Abs(new_qty))
        updated == [symbol |-> old.symbol,
                    qty |-> new_qty,
                    avg_price |-> avg_price,
                    cost_basis |-> cost_basis,
                    current_price |-> fill.price,
                    market_value |-> fill.price * Abs(new_qty),
                    unrealized_pnl |->
                        IF new_qty # 0
                        THEN RMul(RSub(I(fill.price), avg_price), I(new_qty))
                        ELSE I(0),
                    realized_pnl |->
                        IF adding THEN old.realized_pnl
                        ELSE RAdd(old.realized_pnl, realized),
                    last_updated |-> fill.timestamp]
    IN  [s \in DOMAIN ps \cup {fill.symbol} |->
            IF s # fill.symbol THEN ps[s]
            ELSE IF fill.symbol \notin DOMAIN ps THEN fresh
            ELSE updated]

\* Variant: a partly filled order keeps the status WORKING.
process_fill_partial_stays_working(st, i, fill) ==
    LET order == st.orders[i]
        filled_qty == order.filled_qty + fill.qty
        remaining_qty == order.remaining_qty - fill.qty
        prev_avg == IF order.avg_fill_price = NoneRat THEN I(0) ELSE order.avg_fill_price
        avg_fill_price ==
            IF filled_qty > 0
            THEN RDiv(RAdd(RMul(prev_avg, I(filled_qty - fill.qty)),
                           I(fill.price * fill.qty)),
                      I(filled_qty))
            ELSE I(fill.price)
        updated == [order EXCEPT
                      !.filled_qty = filled_qty,
                      !.remaining_qty = remaining_qty,
                      !.avg_fill_price = avg_fill_price,
                      !.status = IF remaining_qty = 0 THEN "FILLED" ELSE "WORKING",
                      !.updated_at = fill.timestamp]
        notional == I(fill.price * fill.qty)
    IN  [st EXCEPT
           !.orders = [st.orders EXCEPT ![i] = updated],
           !.positions = update_position(st.positions, fill),
           !.cash = IF fill.side = "BUY"
                    THEN RSub(st.cash, RAdd(notional, fill.commission))
                    ELSE RAdd(st.cash, RSub(notional, fill.commission)),
           !.fills = Append(st.fills, fill)]

\* Variant: a SELL fill credits the commission instead of charging it.
process_fill_commission_added(st, i, fill) ==
    LET order == st.orders[i]
        filled_qty == order.filled_qty + fill.qty
        remaining_qty == order.remaining_qty - fill.qty
        prev_avg == IF order.avg_fill_price = NoneRat THEN I(0) ELSE order.avg_fill_price
        avg_fill_price ==
            IF filled_qty > 0
            THEN RDiv(RAdd(RMul(prev_avg, I(filled_qty - fill.qty)),
                           I(fill.price * fill.qty)),
                      I(filled_qty))
            ELSE I(fill.price)
        updated == [order EXCEPT
                      !.filled_qty = filled_qty,
                      !.remaining_qty = remaining_qty,
                      !.avg_fill_price = avg_fill_price,
                      !.status = IF remaining_qty = 0 THEN "FILLED" ELSE "PARTIALLY_FILLED",
                      !.updated_at = fill.timestamp]
        notional == I(fill.price * fill.qty)
    IN  [st EXCEPT
           !.orders = [st.orders EXCEPT ![i] = updated],
           !.positions = update_position(st.positions, fill),
           !.cash = IF fill.side = "BUY"
                    THEN RSub(st.cash, RAdd(notional, fill.commission))
                    ELSE RAdd(st.cash, RAdd(notional, fill.commission)),
           !.fills = Append(st.fills, fill)]

\* Variant: the fill is applied but not appended to the fill log.
process_fill_unlogged(st, i, fill) ==
    LET order == st.orders[i]
        filled_qty == order.filled_qty + fill.qty
        remaining_qty == order.remaining_qty - fill.qty
        prev_avg == IF order.avg_fill_price = NoneRat THEN I(0) ELSE order.avg_fill_price
        avg_fill_price ==
            IF filled_qty > 0
            THEN RDiv(RAdd(RMul(prev_avg, I(filled_qty - fill.qty)),
                           I(fill.price * fill.qty)),
                      I(filled_qty))
            ELSE I(fill.price)
        updated == [order EXCEPT
                      !.filled_qty = filled_qty,
                      !.remaining_qty = remaining_qty,
                      !.avg_fill_price = avg_fill_price,
                      !.status = IF remaining_qty = 0 THEN "FILLED" ELSE "PARTIALLY_FILLED",
                      !.updated_at = fill.timestamp]
        notional == I(fill.price * fill.qty)
    IN  [st EXCEPT
           !.orders = [st.orders EXCEPT ![i] = updated],
           !.positions = update_position(st.positions, fill),
           !.cash = IF fill.side = "BUY"
                    THEN RSub(st.cash, RAdd(notional, fill.commission))
                    ELSE RAdd(st.cash, RSub(notional, fill.commission))]

\* Variant: the fill is logged and paid for but the position is not touched.
\* Variant: every fill marks the order FILLED
process_fill_any_fill_completes(st, i, fill) ==
    LET order == st.orders[i]
        filled_qty == order.filled_qty + fill.qty
        remaining_qty == order.remaining_qty - fill.qty
        prev_avg == IF order.avg_fill_price = NoneRat THEN I(0) ELSE order.avg_fill_price
        avg_fill_price ==
            IF filled_qty > 0
            THEN RDiv(RAdd(RMul(prev_avg, I(filled_qty - fill.qty)),
                           I(fill.price * fill.qty)),
                      I(filled_qty))
            ELSE I(fill.price)
        updated == [order EXCEPT
                      !.filled_qty = filled_qty,
                      !.remaining_qty = remaining_qty,
                      !.avg_fill_price = avg_fill_price,
                      !.status = "FILLED",
                      !.updated_at = fill.timestamp]
        notional == I(fill.price * fill.qty)
    IN  [st EXCEPT
           !.orders = [st.orders EXCEPT ![i] = updated],
           !.positions = update_position(st.positions, fill),
           !.cash = IF fill.side = "BUY"
                    THEN RSub(st.cash, RAdd(notional, fill.commission))
                    ELSE RAdd(st.cash, RSub(notional, fill.commission)),
           !.fills = Append(st.fills, fill)]

process_fill_position_skipped(st, i, fill) ==
    LET order == st.orders[i]
        filled_qty == order.filled_qty + fill.qty
        remaining_qty == order.remaining_qty - fill.qty
        prev_avg == IF order.avg_fill_price = NoneRat THEN I(0) ELSE order.avg_fill_price
        avg_fill_price ==
            IF filled_qty > 0
            THEN RDiv(RAdd(RMul(prev_avg, I(filled_qty - fill.qty)),
                           I(fill.price * fill.qty)),
                      I(filled_qty))
            ELSE I(fill.price)
        updated == [order EXCEPT
                      !.filled_qty = filled_qty,
                      !.remaining_qty = remaining_qty,
                      !.avg_fill_price = avg_fill_price,
                      !.status = IF remaining_qty = 0 THEN "FILLED" ELSE "PARTIALLY_FILLED",
                      !.updated_at = fill.timestamp]
        notional == I(fill.price * fill.qty)
    IN  [st EXCEPT
           !.orders = [st.orders EXCEPT ![i] = updated],
           !.positions = st.positions,
           !.cash = IF fill.side = "BUY"
                    THEN RSub(st.cash, RAdd(notional, fill.commission))
                    ELSE RAdd(st.cash, RSub(notional, fill.commission)),
           !.fills = Append(st.fills, fill)]

\* st: the engine's state while process_bar runs, with the fills collected
\* for the caller (ret) and whether an exception has ended the call (raised).
process_fill(st, i, fill) ==
    LET order == st.orders[i]
        filled_qty == order.filled_qty + fill.qty
        remaining_qty == order.remaining_qty - fill.qty
        prev_avg == IF order.avg_fill_price = NoneRat THEN I(0) ELSE order.avg_fill_price
        avg_fill_price ==
            IF filled_qty > 0
            THEN RDiv(RAdd(RMul(prev_avg, I(filled_qty - fill.qty)),
                           I(fill.price * fill.qty)),
                      I(filled_qty))
            ELSE I(fill.price)
        updated == [order EXCEPT
                      !.filled_qty = filled_qty,
                      !.remaining_qty = remaining_qty,
                      !.avg_fill_price = avg_fill_price,
                      !.status = IF remaining_qty = 0 THEN "FILLED" ELSE "PARTIALLY_FILLED",
                      !.updated_at = fill.timestamp]
        notional == I(fill.price * fill.qty)
    IN  [st EXCEPT
           !.orders = [st.orders EXCEPT ![i] = updated],
           !.positions = update_position(st.positions, fill),
           !.cash = IF fill.side = "BUY"
                    THEN RSub(st.cash, RAdd(notional, fill.commission))
                    ELSE RAdd(st.cash, RSub(notional, fill.commission)),
           !.fills = Append(st.fills, fill)]

\* ------------------------------------------------------------- orchestrator
RECURSIVE Join(_)
Join(msgs) ==
    IF Len(msgs) = 0 THEN ""
    ELSE IF Len(msgs) = 1 THEN msgs[1]
    ELSE msgs[1] \o "; " \o Join(Tail(msgs))

NewOrder(req, id, ts) ==
    [id |-> id, symbol |-> req.symbol, side |-> req.side, type |-> req.type,
     qty |-> req.qty, filled_qty |-> 0, remaining_qty |-> req.qty,
     limit_price |-> req.limit_price, stop_price |-> req.stop_price,
     avg_fill_price |-> NoneRat,
     status |-> IF req.type = "MKT" THEN "WORKING"
                ELSE IF req.type \in {"STP", "STP_LMT"} THEN "NEW"
                ELSE "WORKING",
     created_at |-> ts, updated_at |-> ts]

\* The ledgers as an operation finds them.
Ledgers == [orders |-> orders, positions |-> positions, fills |-> fills, cash |-> cash]

\* Variant: a request that fails the risk check is registered all the same.
submit_order_registers_rejected(req, ts) ==
    LET check == risk_check(req)
        id == Len(orders) + 1
    IN  [ledgers |-> [Ledgers EXCEPT !.orders = Append(orders, NewOrder(req, id, ts))],
         order |-> IF check.passed THEN id ELSE 0,
         error |-> Join(check.violations)]

\* submit_order(req, ts): the ledgers after the call and the returned pair
\* (order: the id of the new order, 0 for None; error: the message, "" for None).
submit_order(req, ts) ==
    LET check == risk_check(req)
        id == Len(orders) + 1
    IN  IF ~check.passed
        THEN [ledgers |-> Ledgers, order |-> 0, error |-> Join(check.violations)]
        ELSE [ledgers |-> [Ledgers EXCEPT !.orders = Append(orders, NewOrder(req, id, ts))],
              order |-> id, error |-> ""]

\* The orders process_bar selects for a symbol, in a registry os.
SymbolOrdersIn(os, symbol) ==
    {i \in 1..Len(os) :
        os[i].symbol = symbol /\ os[i].status \in {"NEW", "WORKING"}}

SymbolOrders(symbol) == SymbolOrdersIn(orders, symbol)

\* One iteration of the loop of process_bar, for the order at index i.
ProcessOrder(st, i, bar, up) ==
    LET order == st.orders[i]
        triggered == /\ order.type \in {"STP", "STP_LMT"}
                     /\ check_stop_trigger(order, bar)
                     /\ order.status = "NEW"
        o1 == IF triggered
              THEN [order EXCEPT !.status = "WORKING", !.updated_at = bar.ts]
              ELSE order
        st1 == [st EXCEPT !.orders = [st.orders EXCEPT ![i] = o1]]
        fill == try_fill_order(o1, bar, Len(st.fills) + 1, up)
    IN  IF o1.status # "WORKING" THEN st1
        ELSE IF fill.kind = "raise" THEN [st1 EXCEPT !.raised = TRUE]
        ELSE IF fill.kind = "none" THEN st1
        ELSE [process_fill(st1, i, fill) EXCEPT !.ret = Append(st1.ret, fill)]

RECURSIVE ProcessOrders(_, _, _, _, _)
ProcessOrders(st, i, ids, bar, up) ==
    IF i > Len(st.orders) \/ st.raised THEN st
    ELSE IF i \in ids THEN ProcessOrders(ProcessOrder(st, i, bar, up), i + 1, ids, bar, up)
    ELSE ProcessOrders(st, i + 1, ids, bar, up)

\* process_bar(symbol, bar) called in the engine state st: the state after
\* the call, the returned fills (ret) and whether the call ended in an
\* exception instead (raised).
process_bar_in(st, symbol, bar, up) ==
    ProcessOrders([orders |-> st.orders, positions |-> st.positions,
                   fills |-> st.fills, cash |-> st.cash,
                   current_timestamp |-> bar.ts,
                   current_prices |->
                       [s \in DOMAIN st.current_prices \cup {symbol} |->
                           IF s = symbol THEN bar.close ELSE st.current_prices[s]],
                   ret |-> <<>>, raised |-> FALSE],
                  1, SymbolOrdersIn(st.orders, symbol), bar, up)

\* process_bar(symbol, bar) called in the current state.
process_bar(symbol, bar, up) ==
    process_bar_in([orders |-> orders, positions |-> positions, fills |-> fills,
                    cash |-> cash, current_prices |-> current_prices],
                   symbol, bar, up)

\* Variant: cancelling also writes off the unfilled quantity.
cancel_order_clears_remaining(order_id) ==
    IF order_id \notin 1..Len(orders)
    THEN [orders |-> orders, ret |-> FALSE]
    ELSE IF orders[order_id].status \notin {"NEW", "WORKING", "PARTIALLY_FILLED"}
    THEN [orders |-> orders, ret |-> FALSE]
    ELSE [orders |-> [orders EXCEPT ![order_id] =
                        [@ EXCEPT !.status = "CANCELED",
                                  !.remaining_qty = 0,
                                  !.updated_at = current_timestamp]],
          ret |-> TRUE]

\* Variant: the status of the order is not looked at.
cancel_order_any_status(order_id) ==
    IF order_id \notin 1..Len(orders)
    THEN [orders |-> orders, ret |-> FALSE]
    ELSE [orders |-> [orders EXCEPT ![order_id] =
                        [@ EXCEPT !.status = "CANCELED",
                                  !.updated_at = current_timestamp]],
          ret |-> TRUE]

cancel_order(order_id) ==
    IF order_id \notin 1..Len(orders)
    THEN [orders |-> orders, ret |-> FALSE]
    ELSE IF orders[order_id].status \notin {"NEW", "WORKING", "PARTIALLY_FILLED"}
    THEN [orders |-> orders, ret |-> FALSE]
    ELSE [orders |-> [orders EXCEPT ![order_id] =
                        [@ EXCEPT !.status = "CANCELED",
                                  !.updated_at = current_timestamp]],
          ret |-> TRUE]

\* get_positions refreshes the stored positions from the latest prices
\* before it returns the non-zero ones.
get_positions ==
    LET refreshed ==
            [s \in DOMAIN positions |->
                IF s \in DOMAIN current_prices
                THEN [positions[s] EXCEPT
                        !.current_price = current_prices[s],
                        !.market_value = current_prices[s] * Abs(positions[s].qty),
                        !.unrealized_pnl =
                            RMul(RSub(I(current_prices[s]), positions[s].avg_price),
                                 I(positions[s].qty))]
                ELSE positions[s]]
    IN  [positions |-> refreshed,
         ret |-> {refreshed[s] : s \in {x \in DOMAIN refreshed : refreshed[x].qty # 0}}]

\* ------------------------------------------------------------------ actions
InitialCashChoices == {I(10)}
RiskLimitsChoices ==
    {[max_leverage |-> I(1), max_position_size_pct |-> <<1, 2>>,
      max_order_notional |-> I(4), max_symbols |-> 1]}

NoProbe == [phase |-> "none"]

Init ==
    /\ risk_limits \in RiskLimitsChoices
    /\ initial_cash \in InitialCashChoices
    /\ cash = initial_cash
    /\ orders = <<>>
    /\ positions = [s \in {} |-> 0]
    /\ fills = <<>>
    /\ current_prices = [s \in {} |-> 0]
    /\ current_timestamp = 0
    /\ session \in Sessions
    /\ probe = NoProbe

SubmitOrder(req, ts) ==
    \E r \in {submit_order(req, ts)} :
        /\ r.order = 0 \/ Len(orders) < MaxOrders
        /\ current_timestamp' = ts
        /\ orders' = r.ledgers.orders
        /\ positions' = r.ledgers.positions
        /\ fills' = r.ledgers.fills
        /\ cash' = r.ledgers.cash
        /\ UNCHANGED <<setup, current_prices>>

\* A fill price is a whole number of cents before rounding (the open or the
\* limit, plus or minus one tick) unless the volume-scaled slippage of a
\* market fill can exceed one tick; only then can the rounding meet a tie.
TieOutcomes(bar) ==
    IF RLt(I(tick_size), RMul(RMul(slippage_k, participation_rate), I(bar.open)))
    THEN TieBreaks ELSE {FALSE}

ProcessBar(symbol, bar) ==
    \E r \in {process_bar(symbol, bar, up) : up \in TieOutcomes(bar)} :
        /\ current_timestamp' = r.current_timestamp
        /\ current_prices' = r.current_prices
        /\ orders' = r.orders
        /\ positions' = r.positions
        /\ fills' = r.fills
        /\ cash' = r.cash
        /\ UNCHANGED setup

CancelOrder(order_id) ==
    \E r \in {cancel_order(order_id)} :
        /\ orders' = r.orders
        /\ UNCHANGED <<setup, cash, positions, fills, current_prices, current_timestamp>>

GetPositions ==
    /\ positions' = get_positions.positions
    /\ UNCHANGED <<setup, cash, orders, fills, current_prices, current_timestamp>>

Next ==
    \/ \E req \in Menu(session), ts \in Timestamps : SubmitOrder(req, ts)
    \/ \E symbol \in SessionSymbols(session), bar \in Bar : ProcessBar(symbol, bar)
    \/ \E order_id \in 1..(MaxOrders + 1) : CancelOrder(order_id)
    \/ GetPositions

Spec == Init /\ [][Next]_vars

\* ---------------------------------------------- the fill simulator alone
\* try_fill_order is a function of the order and the bar only.  FillSpec draws
\* a working order and a bar, over a wider range of prices than the engine's
\* runs reach, and applies it once.
ProbeOpens == {1, 2, 3, 49, 50, 999, 1000, 1001, 1250, 1500, 1999, 2500, 5000}
ProbeVolumes == {0, 1, 3, 10, 15, 25, 40, 1000}
ProbeQtys == {1, 2, 3, 5}

ProbeOrder(side, type, qty) ==
    [NewOrder([symbol |-> "XYZ", side |-> side, type |-> type, qty |-> qty,
               limit_price |-> NoPrice, stop_price |-> IF type = "STP" THEN 1 ELSE NoPrice],
              1, 0)
     EXCEPT !.status = "WORKING"]

FillInit ==
    /\ risk_limits \in RiskLimitsChoices
    /\ initial_cash \in InitialCashChoices
    /\ cash = initial_cash
    /\ orders = <<>>
    /\ positions = [s \in {} |-> 0]
    /\ fills = <<>>
    /\ current_prices = [s \in {} |-> 0]
    /\ current_timestamp = 0
    /\ session = "market"
    /\ \E side \in OrderSide, type \in {"MKT", "STP"}, qty \in ProbeQtys,
          open \in ProbeOpens, volume \in ProbeVolumes, up \in TieBreaks :
          probe = [phase |-> "drawn",
                   order |-> ProbeOrder(side, type, qty),
                   bar |-> [ts |-> 1, open |-> open, high |-> open, low |-> open,
                            close |-> open, volume |-> volume],
                   up |-> up]

TryFill ==
    /\ probe.phase = "drawn"
    /\ probe' = [phase |-> "filled", order |-> probe.order, bar |-> probe.bar,
                 up |-> probe.up,
                 fill |-> try_fill_order(probe.order, probe.bar, 1, probe.up)]
    /\ UNCHANGED <<risk_limits, initial_cash, cash, orders, positions, fills,
                   current_prices, current_timestamp, session>>

FillNext == TryFill

FillSpec == FillInit /\ [][FillNext]_vars

\* ------------------------------------------------------------------ claims
\* The calls of process_bar a run can make in the current state.
BarCalls ==
    UNION {{<<symbol, bar, up>> : up \in TieOutcomes(bar)} :
               symbol \in SessionSymbols(session), bar \in Bar}

RECURSIVE FilledBy(_, _)
FilledBy(log, id) ==
    IF log = <<>> THEN 0
    ELSE (IF Head(log).order_id = id THEN Head(log).qty ELSE 0) + FilledBy(Tail(log), id)

RECURSIVE CashFlow(_)
CashFlow(log) ==
    IF log = <<>> THEN I(0)
    ELSE LET f == Head(log)
             notional == I(f.price * f.qty)
         IN  RAdd(IF f.side = "BUY" THEN RNeg(RAdd(notional, f.commission))
                  ELSE RSub(notional, f.commission),
                  CashFlow(Tail(log)))

\* C1: every order in the registry has filled_qty + remaining_qty = qty and
\* remaining_qty >= 0, and no fill that process_bar applies is larger than
\* the remaining quantity its order has when the call starts.
C1_OrderQuantities ==
    /\ \A i \in 1..Len(orders) :
          /\ orders[i].filled_qty + orders[i].remaining_qty = orders[i].qty
          /\ orders[i].remaining_qty >= 0
    /\ \A c \in BarCalls :
          LET r == process_bar(c[1], c[2], c[3])
          IN  \A k \in 1..Len(r.ret) :
                 r.ret[k].qty <= orders[r.ret[k].order_id].remaining_qty

C1_Witness ==
    \E i \in 1..Len(orders) :
        /\ orders[i].status = "PARTIALLY_FILLED"
        /\ orders[i].filled_qty > 0
        /\ orders[i].remaining_qty > 0

\* C2: an order enters the registry WORKING (MKT, LMT) or NEW (STP, STP_LMT);
\* between two operations its status stays or moves along NEW -> WORKING,
\* WORKING -> PARTIALLY_FILLED, WORKING -> FILLED, PARTIALLY_FILLED -> FILLED,
\* or to CANCELED from NEW, WORKING or PARTIALLY_FILLED, a stop passing NEW ->
\* WORKING -> (PARTIALLY_)FILLED inside one process_bar; a FILLED or CANCELED
\* order never changes status or quantities again; no order is REJECTED.
StatusEdge(a, b) ==
    \/ a = "NEW" /\ b = "WORKING"
    \/ a = "WORKING" /\ b \in {"PARTIALLY_FILLED", "FILLED"}
    \/ a = "PARTIALLY_FILLED" /\ b = "FILLED"
    \/ a \in {"NEW", "WORKING", "PARTIALLY_FILLED"} /\ b = "CANCELED"

StatusMove(a, b) ==
    \/ a = b
    \/ StatusEdge(a, b)
    \/ a = "NEW" /\ StatusEdge("WORKING", b) /\ b # "CANCELED"

C2_Lifecycle ==
    [][/\ Len(orders') >= Len(orders)
       /\ \A i \in 1..Len(orders) :
             /\ StatusMove(orders[i].status, orders'[i].status)
             /\ orders[i].status \in {"FILLED", "CANCELED"} =>
                   /\ orders'[i].status = orders[i].status
                   /\ orders'[i].filled_qty = orders[i].filled_qty
                   /\ orders'[i].remaining_qty = orders[i].remaining_qty
       /\ \A i \in (Len(orders) + 1)..Len(orders') :
             orders'[i].status =
                 IF orders'[i].type \in {"MKT", "LMT"} THEN "WORKING" ELSE "NEW"
       /\ \A i \in 1..Len(orders') : orders'[i].status # "REJECTED"]_vars

C2_Witness ==
    /\ \E i \in 1..Len(orders) :
          orders[i].type = "STP" /\ orders[i].status = "FILLED"
    /\ \E i \in 1..Len(orders) : orders[i].status = "CANCELED"

\* C3 (as claimed): a LMT or STP_LMT order that is PARTIALLY_FILLED receives a
\* further fill from every process_bar for its symbol whose bar contains its
\* limit price and has floor(volume * participation_rate) >= 1.
C3_PartialFillContinues ==
    \A i \in 1..Len(orders) :
        (orders[i].status = "PARTIALLY_FILLED" /\ orders[i].type \in {"LMT", "STP_LMT"}) =>
            \A bar \in Bar :
              \A up \in TieOutcomes(bar) :
                (/\ bar.low <= orders[i].limit_price
                 /\ orders[i].limit_price <= bar.high
                 /\ RFloor(RMul(I(bar.volume), participation_rate)) >= 1) =>
                    process_bar(orders[i].symbol, bar, up).orders[i].filled_qty
                        > orders[i].filled_qty

\* C4: when the risk check fails, submit_order returns no order and a
\* non-empty error string, and leaves the order registry, the positions, the
\* fill log and the cash as they were.
C4_RejectedSubmit ==
    \A req \in Menu(session), ts \in Timestamps :
        LET r == submit_order(req, ts)
        IN  ~risk_check(req).passed =>
               /\ r.order = 0
               /\ r.error # ""
               /\ r.ledgers = Ledgers

C4_Witness ==
    /\ Len(orders) > 0
    /\ Len(fills) > 0
    /\ \E req \in Menu(session) :
          /\ ~risk_check(req).passed
          /\ Len(risk_check(req).violations) >= 2

\* C5: cash is the initial cash minus (price * qty + commission) for every
\* BUY fill of the log plus (price * qty - commission) for every SELL fill.
C5_CashLedger == cash = RAdd(initial_cash, CashFlow(fills))

C5_Witness ==
    /\ \E k \in 1..Len(fills) : fills[k].side = "BUY"
    /\ \E k \in 1..Len(fills) : fills[k].side = "SELL"

\* C6: the fills a process_bar call returns are exactly what it appends to
\* the fill log, no operation changes or removes an earlier entry, no fill id
\* occurs twice, and each order's filled_qty is the sum of the quantities of
\* the log entries of that order.
C6_FillLog ==
    /\ [](/\ \A i \in 1..Len(orders) : orders[i].filled_qty = FilledBy(fills, orders[i].id)
          /\ \A j, k \in 1..Len(fills) : fills[j].id = fills[k].id => j = k
          /\ \A c \in BarCalls :
                LET r == process_bar(c[1], c[2], c[3])
                IN  r.fills = fills \o r.ret)
    /\ [][/\ Len(fills') >= Len(fills)
          /\ SubSeq(fills', 1, Len(fills)) = fills]_vars

C6_Witness ==
    /\ Len(fills) >= 2
    /\ fills[1].order_id # fills[2].order_id

\* C7 (as claimed): the equity get_account reports is cash plus the sum of the
\* positions' market_value fields plus the sum of their unrealized_pnl fields.
RECURSIVE MarketValueOf(_, _)
MarketValueOf(ps, S) ==
    IF S = {} THEN 0
    ELSE LET s == CHOOSE y \in S : TRUE
         IN  ps[s].market_value + MarketValueOf(ps, S \ {s})

C7_EquityFromLedger ==
    get_account.equity =
        RAdd(RAdd(cash, I(MarketValueOf(positions, DOMAIN positions))),
             UnrealizedOf(positions, DOMAIN positions))

\* C8 (as claimed): every MKT order that is WORKING when process_bar is called
\* for its symbol gets exactly one fill in that call, for its whole remaining
\* quantity, and is FILLED with nothing remaining when the call returns.
C8_MarketFillsWhole ==
    \A c \in BarCalls :
        LET r == process_bar(c[1], c[2], c[3])
        IN  \A i \in 1..Len(orders) :
               (/\ orders[i].type = "MKT"
                /\ orders[i].status = "WORKING"
                /\ orders[i].symbol = c[1]) =>
                   /\ ~r.raised
                   /\ \E k \in 1..Len(r.ret) :
                         /\ r.ret[k].order_id = orders[i].id
                         /\ r.ret[k].qty = orders[i].remaining_qty
                         /\ \A j \in 1..Len(r.ret) :
                               r.ret[j].order_id = orders[i].id => j = k
                   /\ r.orders[i].status = "FILLED"
                   /\ r.orders[i].remaining_qty = 0

C10_LimitFillRule ==
    \A c \in BarCalls :
        LET r == process_bar(c[1], c[2], c[3])
            bar == c[2]
            max_fillable == RFloor(RMul(I(c[2].volume), participation_rate))
        IN  \A i \in 1..Len(orders) :
               (/\ orders[i].type \in {"LMT", "STP_LMT"}
                /\ orders[i].status = "WORKING"
                /\ orders[i].symbol = c[1]) =>
                   LET eligible == /\ bar.low <= orders[i].limit_price
                                   /\ orders[i].limit_price <= bar.high
                                   /\ max_fillable >= 1
                       got == {k \in 1..Len(r.ret) : r.ret[k].order_id = orders[i].id}
                   IN  /\ (got # {}) <=> eligible
                       /\ \A k \in got :
                             r.ret[k].qty =
                                 IF orders[i].remaining_qty < max_fillable
                                 THEN orders[i].remaining_qty ELSE max_fillable
                       /\ got = {} => r.orders[i] = orders[i]

\* The fills of a process_bar result that belong to orders of the given types.
FillsOfTypes(r, types) ==
    {k \in 1..Len(r.ret) : orders[r.ret[k].order_id].type \in types}

\* C11 (as claimed): every fill of a LMT or STP_LMT order, partial or full,
\* has a price inside [bar.low, bar.high] of the bar that produced it.
C11_LimitFillInsideBar ==
    \A c \in BarCalls :
        LET r == process_bar(c[1], c[2], c[3])
        IN  \A k \in FillsOfTypes(r, {"LMT", "STP_LMT"}) :
               /\ c[2].low <= r.ret[k].price
               /\ r.ret[k].price <= c[2].high

C13_StopOrder ==
    \A c \in BarCalls :
        LET r == process_bar(c[1], c[2], c[3])
            bar == c[2]
        IN  \A i \in 1..Len(orders) :
               (/\ orders[i].type = "STP"
                /\ orders[i].status = "NEW"
                /\ orders[i].stop_price # NoPrice
                /\ orders[i].symbol = c[1]) =>
                   LET got == {k \in 1..Len(r.ret) : r.ret[k].order_id = orders[i].id}
                       triggered == IF orders[i].side = "BUY"
                                    THEN bar.high >= orders[i].stop_price
                                    ELSE bar.low <= orders[i].stop_price
                   IN  IF ~triggered
                       THEN got = {} /\ r.orders[i] = orders[i]
                       ELSE /\ Cardinality(got) = 1
                            /\ \A k \in got :
                                  /\ r.ret[k].qty = orders[i].qty
                                  /\ IF orders[i].side = "BUY"
                                     THEN r.ret[k].price >= bar.open + tick_size
                                     ELSE r.ret[k].price <= bar.open - tick_size
                            /\ r.orders[i].status = "FILLED"
                            /\ r.orders[i].remaining_qty = 0

\* C14: cancel_order returns TRUE and sets the status CANCELED exactly when
\* the id is in the registry and the order is NEW, WORKING or
\* PARTIALLY_FILLED; otherwise it returns FALSE and changes no order; it never
\* changes filled_qty or remaining_qty of the order nor any other order.  A
\* step that cancels an order leaves positions, fills and cash as they were,
\* and no later step adds a fill for a CANCELED order or changes its
\* quantities.
Cancelable(order_id) ==
    /\ order_id \in 1..Len(orders)
    /\ orders[order_id].status \in {"NEW", "WORKING", "PARTIALLY_FILLED"}

C14_Cancel ==
    /\ [](\A order_id \in 1..(MaxOrders + 1) :
             LET r == cancel_order(order_id)
             IN  /\ r.ret <=> Cancelable(order_id)
                 /\ Len(r.orders) = Len(orders)
                 /\ ~r.ret => r.orders = orders
                 /\ r.ret =>
                       /\ r.orders[order_id].status = "CANCELED"
                       /\ r.orders[order_id].filled_qty = orders[order_id].filled_qty
                       /\ r.orders[order_id].remaining_qty = orders[order_id].remaining_qty
                       /\ \A j \in 1..Len(orders) : j # order_id => r.orders[j] = orders[j])
    /\ [][\A i \in 1..Len(orders) :
             /\ (orders[i].status # "CANCELED" /\ orders'[i].status = "CANCELED") =>
                   /\ positions' = positions
                   /\ fills' = fills
                   /\ cash' = cash
                   /\ orders' = cancel_order(i).orders
             /\ orders[i].status = "CANCELED" =>
                   /\ orders'[i].status = "CANCELED"
                   /\ orders'[i].filled_qty = orders[i].filled_qty
                   /\ orders'[i].remaining_qty = orders[i].remaining_qty
                   /\ \A k \in (Len(fills) + 1)..Len(fills') :
                         fills'[k].order_id # orders[i].id]_vars

C14_Witness ==
    /\ \E i \in 1..Len(orders) :
          /\ orders[i].status = "CANCELED"
          /\ orders[i].filled_qty > 0
          /\ orders[i].remaining_qty > 0
    /\ \E i \in 1..Len(orders) : orders[i].status = "FILLED"

\* The fills _update_position can be handed for a symbol.
ProbeFills(symbol) ==
    {[kind |-> "fill", id |-> Len(fills) + 1, order_id |-> 1, symbol |-> symbol,
      side |-> side, price |-> price, qty |-> qty,
      commission |-> RMul(I(qty), commission_per_share), slippage |-> I(0),
      timestamp |-> current_timestamp] :
        side \in OrderSide, price \in 1..(MaxPrice + 1), qty \in 1..(MaxQty + 1)}

\* C15: a fill against a non-zero position (reducing, closing or reversing
\* it) adds exactly (fill price - avg_price before) * closed_qty * sign(old
\* qty) to the position's realized_pnl, closed_qty = min(|old qty|, fill qty);
\* a fill that opens a position starts it with realized_pnl 0 and a fill that
\* adds to a position in its direction, or re-opens a flat one, leaves
\* realized_pnl unchanged.
C15_RealizedPnl ==
    \A symbol \in Symbols :
        \A fill \in ProbeFills(symbol) :
            LET after == update_position(positions, fill)[symbol]
            IN  IF symbol \notin DOMAIN positions
                THEN after.realized_pnl = I(0)
                ELSE LET before == positions[symbol]
                         opposite == \/ before.qty > 0 /\ fill.side = "SELL"
                                     \/ before.qty < 0 /\ fill.side = "BUY"
                         closed_qty == IF Abs(before.qty) < fill.qty
                                       THEN Abs(before.qty) ELSE fill.qty
                     IN  IF opposite
                         THEN after.realized_pnl =
                                 RAdd(before.realized_pnl,
                                      RMul(RSub(I(fill.price), before.avg_price),
                                           I(closed_qty * Sign(before.qty))))
                         ELSE after.realized_pnl = before.realized_pnl

C15_Witness ==
    \E symbol \in DOMAIN positions :
        /\ positions[symbol].qty < 0
        /\ positions[symbol].realized_pnl # I(0)
        /\ \E k \in 1..Len(fills) : fills[k].side = "BUY" /\ fills[k].symbol = symbol

\* The equity get_account computes when the positions are ps.
EquityOver(ps) ==
    RAdd(RAdd(cash, I(PositionsValueOf(ps, DOMAIN ps))), UnrealizedOf(ps, DOMAIN ps))

\* C16 (as claimed): the queries change no engine state: the positions are
\* the same after get_positions as before, and the equity and unrealized P&L
\* get_account reports are the same whether or not get_positions was called
\* in between.
C16_QueriesReadOnly ==
    /\ get_positions.positions = positions
    /\ EquityOver(get_positions.positions) = get_account.equity
    /\ UnrealizedOf(get_positions.positions, DOMAIN positions) = get_account.unrealized_pnl

ScenarioCash == I(10000000)
ScenarioA_Order ==
    [symbol |-> "XYZ", side |-> "BUY", type |-> "MKT", qty |-> 100,
     limit_price |-> NoPrice, stop_price |-> NoPrice]
ScenarioA_Bar ==
    [ts |-> 1, open |-> 5000, high |-> 5100, low |-> 4950, close |-> 5050,
     volume |-> 1000000]
ScenarioB_Order ==
    [symbol |-> "XYZ", side |-> "SELL", type |-> "LMT", qty |-> 500,
     limit_price |-> 5200, stop_price |-> NoPrice]
ScenarioB_Bar ==
    [ts |-> 2, open |-> 5200, high |-> 5250, low |-> 5150, close |-> 5200,
     volume |-> 10000]
ScenarioC_Order ==
    [symbol |-> "XYZ", side |-> "BUY", type |-> "STP", qty |-> 100,
     limit_price |-> NoPrice, stop_price |-> 5500]
ScenarioC_Bar ==
    [ts |-> 3, open |-> 5400, high |-> 5600, low |-> 5300, close |-> 5500,
     volume |-> 1000000]
ScenarioOrders == {ScenarioA_Order, ScenarioB_Order, ScenarioC_Order}
ScenarioBars == {ScenarioA_Bar, ScenarioB_Bar, ScenarioC_Bar}

ScenarioInit ==
    /\ risk_limits = DefaultRiskLimits
    /\ initial_cash = ScenarioCash
    /\ cash = initial_cash
    /\ orders = <<>>
    /\ positions = [s \in {} |-> 0]
    /\ fills = <<>>
    /\ current_prices = [s \in {} |-> 0]
    /\ current_timestamp = 0
    /\ session = "market"
    /\ probe = NoProbe

ScenarioNext ==
    \/ \E req \in ScenarioOrders : SubmitOrder(req, current_timestamp)
    \/ \E bar \in ScenarioBars : ProcessBar("XYZ", bar)
    \/ \E order_id \in 1..MaxOrders : CancelOrder(order_id)
    \/ GetPositions

ScenarioSpec == ScenarioInit /\ [][ScenarioNext]_vars

\* The engine with no order, fill or position yet, as a state for process_bar_in.
NothingTraded ==
    /\ orders = <<>>
    /\ fills = <<>>
    /\ DOMAIN positions = {}
    /\ cash = initial_cash

\* Scenario A's outcome when its order is submitted now and its bar follows:
\* the order is accepted, the bar yields one fill of 100 shares at 50.01 or
\* more, cash falls by price * 100 + commission, and XYZ is long 100.
ScenarioA_Outcome(up) ==
    LET s == submit_order(ScenarioA_Order, current_timestamp)
        r == process_bar_in([orders |-> s.ledgers.orders,
                             positions |-> s.ledgers.positions,
                             fills |-> s.ledgers.fills,
                             cash |-> s.ledgers.cash,
                             current_prices |-> current_prices],
                            "XYZ", ScenarioA_Bar, up)
    IN  /\ s.order # 0
        /\ ~r.raised
        /\ Len(r.ret) = 1
        /\ r.ret[1].qty = 100
        /\ r.ret[1].side = "BUY"
        /\ r.ret[1].price >= ScenarioA_Bar.open + tick_size
        /\ r.cash = RSub(cash, RAdd(I(r.ret[1].price * 100), r.ret[1].commission))
        /\ DOMAIN r.positions = {"XYZ"}
        /\ r.positions["XYZ"].qty = 100

C19_NoUncaughtFault ==
    \A c \in BarCalls :
        LET r == process_bar(c[1], c[2], c[3])
        IN  /\ ~r.raised
            /\ \A k \in 1..Len(r.ret) :
                  FillValid(r.ret[k].price, r.ret[k].qty, r.ret[k].commission)

\* C20 (as claimed): a request that lacks the price its type requires never
\* becomes an order: every LMT or STP_LMT order in the registry has a limit
\* price and every STP or STP_LMT order has a stop price.
C20_MalformedRejected ==
    \A i \in 1..Len(orders) :
        /\ orders[i].type \in {"LMT", "STP_LMT"} => orders[i].limit_price # NoPrice
        /\ orders[i].type \in {"STP", "STP_LMT"} => orders[i].stop_price # NoPrice

\* The signed quantity the fills of a log add up to for a symbol.
RECURSIVE NetQty(_, _)
NetQty(log, symbol) ==
    IF log = <<>> THEN 0
    ELSE (IF Head(log).symbol # symbol THEN 0
          ELSE IF Head(log).side = "BUY" THEN Head(log).qty ELSE -Head(log).qty)
         + NetQty(Tail(log), symbol)

\* C21: after every operation, the symbols that have a position are exactly
\* the symbols that have a fill in the log, each position's quantity is the
\* BUY quantity minus the SELL quantity of the symbol's fills, and no
\* operation removes a position, a flat one included.
C21_PositionsFromFills ==
    /\ [](\A symbol \in Symbols :
             /\ symbol \in DOMAIN positions <=>
                   \E k \in 1..Len(fills) : fills[k].symbol = symbol
             /\ symbol \in DOMAIN positions =>
                   positions[symbol].qty = NetQty(fills, symbol))
    /\ [][DOMAIN positions \subseteq DOMAIN positions']_vars

C21_Witness ==
    \E symbol \in DOMAIN positions :
        /\ positions[symbol].qty = 0
        /\ \E k \in 1..Len(fills) : fills[k].symbol = symbol /\ fills[k].side = "BUY"
        /\ \E k \in 1..Len(fills) : fills[k].symbol = symbol /\ fills[k].side = "SELL"

\* C22 (as claimed): when process_bar(symbol, bar) returns and the symbol has
\* a position, the position's current_price is bar.close, its market_value is
\* bar.close * |qty| and its unrealized_pnl is (bar.close - avg_price) * qty,
\* with or without a fill in the call.
C22_MarkRefreshedOnBar ==
    \A c \in BarCalls :
        LET r == process_bar(c[1], c[2], c[3])
        IN  (~r.raised /\ c[1] \in DOMAIN r.positions) =>
               LET p == r.positions[c[1]]
               IN  /\ p.current_price = c[2].close
                   /\ p.market_value = c[2].close * Abs(p.qty)
                   /\ p.unrealized_pnl = RMul(RSub(I(c[2].close), p.avg_price), I(p.qty))

\* The requests the risk check can be handed: it reads symbol, side, qty and
\* limit_price only, so market requests and limit requests at the lowest price
\* and beyond the highest bar price, of every size, stand for all.
RiskProbes ==
    {[symbol |-> symbol, side |-> side,
      type |-> IF limit_price = NoPrice THEN "MKT" ELSE "LMT",
      qty |-> qty, limit_price |-> limit_price, stop_price |-> NoPrice] :
        symbol \in Symbols, side \in OrderSide, qty \in 1..(MaxQty + 1),
        limit_price \in {NoPrice, 1, MaxPrice + 1}}

\* The conditions of the risk policy that fail for a request whose reference
\* price is price, in an account with the given equity, buying power and
\* positions value, by the message each one is reported with.
FailedConditions(req, price, equity, buying_power, value) ==
    LET notional == price * req.qty
        held_qty == IF req.symbol \in DOMAIN positions THEN positions[req.symbol].qty ELSE 0
        resulting_qty == held_qty + (IF req.side = "BUY" THEN req.qty ELSE -req.qty)
        resulting_value == value + (IF req.side = "BUY" THEN notional ELSE -notional)
    IN  (IF RLt(risk_limits.max_order_notional, I(notional))
         THEN {"Order notional exceeds limit"} ELSE {})
        \cup
        (IF RLt(RMul(risk_limits.max_position_size_pct, equity),
                I(Abs(resulting_qty) * price))
         THEN {"Resulting position exceeds limit"} ELSE {})
        \cup
        (IF /\ req.symbol \notin DOMAIN positions
            /\ Cardinality(DOMAIN positions) >= risk_limits.max_symbols
         THEN {"Max symbols limit reached"} ELSE {})
        \cup
        (IF req.side = "BUY" /\ RLt(buying_power, I(notional))
         THEN {"Insufficient buying power"} ELSE {})
        \cup
        (IF RLt(I(0), equity) /\ RLt(RMul(risk_limits.max_leverage, equity), I(resulting_value))
         THEN {"Resulting leverage exceeds limit"} ELSE {})

\* C23: with a reference price (the limit price, else the symbol's latest
\* mark) the risk check reports exactly the failed conditions among order
\* notional, position size, symbol count, buying power and leverage, each
\* once, and passes iff none failed, so a request whose notional exceeds
\* max_order_notional is refused by submit_order with the notional message
\* among the reasons; without a reference price the result is the single
\* violation "No price data" and the request is refused.
C23_AllViolationsCollected ==
    \A equity \in {calculate_equity}, buying_power \in {calculate_buying_power},
       value \in {positions_value} :
        \A req \in RiskProbes :
            \A check \in {risk_check(req)}, price \in {RefPrice(req)} :
                IF price = 0
                THEN /\ check.violations = <<"No price data">>
                     /\ ~check.passed
                ELSE \A failed \in {FailedConditions(req, price, equity, buying_power, value)} :
                        /\ {check.violations[k] : k \in 1..Len(check.violations)} = failed
                        /\ Len(check.violations) = Cardinality(failed)
                        /\ check.passed <=> failed = {}
                        /\ RLt(risk_limits.max_order_notional, I(price * req.qty)) =>
                              /\ check.violations[1] = "Order notional exceeds limit"
                              /\ submit_order(req, current_timestamp).order = 0
                              /\ submit_order(req, current_timestamp).error # ""

C23_Witness ==
    /\ \E req \in RiskProbes :
          /\ RLt(risk_limits.max_order_notional, I(RefPrice(req) * req.qty))
          /\ Len(risk_check(req).violations) = 5
    /\ \E req \in RiskProbes : RefPrice(req) # 0 /\ risk_check(req).passed
    /\ \E req \in RiskProbes : RefPrice(req) = 0
    /\ Len(fills) > 0

\* The symbols currently held: those whose position has a non-zero quantity.
HeldSymbols == {s \in DOMAIN positions : positions[s].qty # 0}

\* C24 (as claimed): the risk check reports the symbol-count violation exactly
\* when the request's symbol is not held and the number of held symbols is at
\* least max_symbols, a symbol whose position has been closed counting neither
\* as held nor towards the limit.
C24_SymbolCountHeldOnly ==
    \A req \in Menu(session) :
        LET check == risk_check(req)
        IN  RefPrice(req) # 0 =>
               ((\E k \in 1..Len(check.violations) :
                    check.violations[k] = "Max symbols limit reached")
                <=> (/\ req.symbol \notin HeldSymbols
                     /\ Cardinality(HeldSymbols) >= risk_limits.max_symbols))

\* C25 (as claimed): a fill against a non-zero position, in the opposite
\* direction: when it closes the position exactly, avg_price and cost_basis
\* become 0 and the realized P&L stays on the position (with the closing
\* leg's P&L added); when it reverses the sign, the residual has avg_price =
\* fill price and cost_basis = fill price * |residual qty|; when it only
\* reduces the position, avg_price is unchanged.
C25_CloseAndReverse ==
    \A symbol \in DOMAIN positions :
        \A fill \in ProbeFills(symbol) :
            LET before == positions[symbol]
                after == update_position(positions, fill)[symbol]
                opposite == \/ before.qty > 0 /\ fill.side = "SELL"
                            \/ before.qty < 0 /\ fill.side = "BUY"
            IN  opposite =>
                   /\ after.qty = before.qty + (IF fill.side = "BUY" THEN fill.qty ELSE -fill.qty)
                   /\ IF fill.qty = Abs(before.qty)
                      THEN /\ after.qty = 0
                           /\ after.avg_price = I(0)
                           /\ after.cost_basis = I(0)
                           /\ after.realized_pnl =
                                 RAdd(before.realized_pnl,
                                      RMul(RSub(I(fill.price), before.avg_price),
                                           I(before.qty)))
                      ELSE IF fill.qty > Abs(before.qty)
                      THEN /\ Sign(after.qty) = -Sign(before.qty)
                           /\ after.avg_price = I(fill.price)
                           /\ after.cost_basis = I(fill.price * Abs(after.qty))
                      ELSE /\ Sign(after.qty) = Sign(before.qty)
                           /\ after.avg_price = before.avg_price

\* ------------------------------------------------- binary floating point
\* The engine's money amounts are Python floats (IEEE 754 binary64).  Where
\* the rounding of a quotient matters they are modelled bit for bit: a
\* positive float is [m, e] with m its significand, Precision bits, most
\* significant (always 1) first, and value m * 2^e.  Every operation rounds
\* its exact result to the nearest float, ties to the even significand.
Precision == 53

RECURSIVE Bits(_)
Bits(n) == IF n = 0 THEN <<>> ELSE Append(Bits(n \div 2), n % 2)

Zeros(k) == [i \in 1..k |-> 0]

\* bits without its leading zeros
Strip(bits) ==
    IF \A i \in 1..Len(bits) : bits[i] = 0 THEN <<>>
    ELSE LET first == CHOOSE i \in 1..Len(bits) :
                          bits[i] = 1 /\ \A j \in 1..(i - 1) : bits[j] = 0
         IN  SubSeq(bits, first, Len(bits))

\* bits + 1
Inc(bits) ==
    IF \A i \in 1..Len(bits) : bits[i] = 1 THEN <<1>> \o Zeros(Len(bits))
    ELSE LET last == CHOOSE i \in 1..Len(bits) :
                         bits[i] = 0 /\ \A j \in (i + 1)..Len(bits) : bits[j] = 1
         IN  [i \in 1..Len(bits) |-> IF i < last THEN bits[i] ELSE IF i = last THEN 1 ELSE 0]

\* bits - 1, for bits > 0; the length is kept
Dec(bits) ==
    LET last == CHOOSE i \in 1..Len(bits) :
                    bits[i] = 1 /\ \A j \in (i + 1)..Len(bits) : bits[j] = 0
    IN  [i \in 1..Len(bits) |-> IF i < last THEN bits[i] ELSE IF i = last THEN 0 ELSE 1]

\* bits * n + carry, as the low Len(bits) bits of the result and the carry
\* out of them.  The low half is done first and hands its carry to the high
\* half; the test of low.carry (never negative) has the halves evaluated in
\* that order, which keeps the evaluation shallow.
RECURSIVE MulCarry(_, _, _)
MulCarry(bits, n, carry) ==
    IF Len(bits) = 0 THEN [bits |-> <<>>, carry |-> carry]
    ELSE IF Len(bits) = 1
    THEN [bits |-> <<(bits[1] * n + carry) % 2>>, carry |-> (bits[1] * n + carry) \div 2]
    ELSE LET h == Len(bits) \div 2
             low == MulCarry(SubSeq(bits, h + 1, Len(bits)), n, carry)
             high == MulCarry(SubSeq(bits, 1, h), n, low.carry)
         IN  IF low.carry < 0 THEN low
             ELSE [bits |-> high.bits \o low.bits, carry |-> high.carry]

\* a + b + carry for a and b of the same length, in the same form
RECURSIVE AddCarry(_, _, _)
AddCarry(a, b, carry) ==
    IF Len(a) = 0 THEN [bits |-> <<>>, carry |-> carry]
    ELSE IF Len(a) = 1
    THEN [bits |-> <<(a[1] + b[1] + carry) % 2>>, carry |-> (a[1] + b[1] + carry) \div 2]
    ELSE LET h == Len(a) \div 2
             low == AddCarry(SubSeq(a, h + 1, Len(a)), SubSeq(b, h + 1, Len(b)), carry)
             high == AddCarry(SubSeq(a, 1, h), SubSeq(b, 1, h), low.carry)
         IN  IF low.carry < 0 THEN low
             ELSE [bits |-> high.bits \o low.bits, carry |-> high.carry]

\* quotient (as many bits as the dividend) and remainder of the long division
\* of bits by d that starts with the remainder r; the high half is done first
RECURSIVE DivSmall(_, _, _)
DivSmall(bits, d, r) ==
    IF Len(bits) = 0 THEN [q |-> <<>>, r |-> r]
    ELSE IF Len(bits) = 1
    THEN LET v == 2 * r + bits[1]
         IN  IF v >= d THEN [q |-> <<1>>, r |-> v - d] ELSE [q |-> <<0>>, r |-> v]
    ELSE LET h == Len(bits) \div 2
             high == DivSmall(SubSeq(bits, 1, h), d, r)
             low == DivSmall(SubSeq(bits, h + 1, Len(bits)), d, high.r)
         IN  IF high.r < 0 THEN high
             ELSE [q |-> high.q \o low.q, r |-> low.r]

\* The float nearest to bits * 2^e (+ a non-zero fraction of 2^e below it when
\* sticky), bits starting with 1.
RoundTo(bits, e, sticky) ==
    IF Len(bits) <= Precision
    THEN [m |-> bits \o Zeros(Precision - Len(bits)), e |-> e - (Precision - Len(bits))]
    ELSE LET keep == SubSeq(bits, 1, Precision)
             rest == SubSeq(bits, Precision + 1, Len(bits))
             below == sticky \/ \E i \in 2..Len(rest) : rest[i] = 1
             up == rest[1] = 1 /\ (below \/ keep[Precision] = 1)
             m == IF up THEN Inc(keep) ELSE keep
             drop == Len(bits) - Precision
         IN  IF Len(m) > Precision
             THEN [m |-> SubSeq(m, 1, Precision), e |-> e + drop + 1]
             ELSE [m |-> m, e |-> e + drop]

\* float(n / d) for integers n, d > 0: what a decimal literal, or round(x, 2),
\* gives for n hundredths when d = 100.
FromRat(n, d) ==
    LET k == Precision + 1 + Len(Bits(d))
        res == DivSmall(Bits(n) \o Zeros(k), d, 0)
    IN  RoundTo(Strip(res.q), -k, res.r # 0)

\* x * n for a float x and an integer n > 0
FMulInt(x, n) ==
    LET res == MulCarry(x.m, n, 0)
    IN  RoundTo(Strip(Bits(res.carry) \o res.bits), x.e, FALSE)

\* x + y
FAdd(x, y) ==
    LET lo == IF x.e < y.e THEN x.e ELSE y.e
        xs == x.m \o Zeros(x.e - lo)
        ys == y.m \o Zeros(y.e - lo)
        len == IF Len(xs) < Len(ys) THEN Len(ys) ELSE Len(xs)
        res == AddCarry(Zeros(len - Len(xs)) \o xs, Zeros(len - Len(ys)) \o ys, 0)
    IN  RoundTo(Strip(Bits(res.carry) \o res.bits), lo, FALSE)

\* x / n for a float x and an integer n > 0
FDivInt(x, n) ==
    LET k == Len(Bits(n)) + 2
        res == DivSmall(x.m \o Zeros(k), n, 0)
    IN  RoundTo(Strip(res.q), x.e - k, res.r # 0)

\* The floats next above and next below x.
FSucc(x) ==
    IF \A i \in 1..Precision : x.m[i] = 1
    THEN [m |-> <<1>> \o Zeros(Precision - 1), e |-> x.e + 1]
    ELSE [m |-> Inc(x.m), e |-> x.e]

FPred(x) ==
    IF \A i \in 2..Precision : x.m[i] = 0
    THEN [m |-> [i \in 1..Precision |-> 1], e |-> x.e - 1]
    ELSE [m |-> Dec(x.m), e |-> x.e]

\* ------------------------------- the average price in floating point
\* _update_position for the fill that opens a position and for the fills that
\* add to it in its direction, computed in floats as the engine computes it.
\* BlendSpec opens a position and adds to it up to MaxAdds times; probe holds
\* the position, the position before the last fill, and that fill.
MaxAdds == 2
BlendPrices == {1, 2, 3, 5000, 5001}
BlendQtys == {1, 2, 3, 4}

\* A fill as _update_position reads it: side, qty and the price in cents
\* as the float round(x, 2) returns.
BlendFills ==
    {[side |-> side, price |-> FromRat(cents, 100), qty |-> qty] :
        side \in OrderSide, cents \in BlendPrices, qty \in BlendQtys}

NoPosition == [qty |-> 0]

\* Variant: the average price is the plain mean of the old average and the
\* fill price, whatever the quantities.
update_position_float_unweighted(p, fill) ==
    LET old_qty == p.qty
        qty == IF fill.side = "BUY" THEN old_qty + fill.qty ELSE old_qty - fill.qty
        total_cost == FAdd(p.avg_price, fill.price)
        avg_price == FDivInt(total_cost, 2)
    IN  IF p = NoPosition
        THEN [qty |-> IF fill.side = "BUY" THEN fill.qty ELSE -fill.qty,
              avg_price |-> fill.price,
              cost_basis |-> FMulInt(fill.price, fill.qty)]
        ELSE [qty |-> qty,
              avg_price |-> avg_price,
              cost_basis |-> FMulInt(avg_price, Abs(qty))]

update_position_float(p, fill) ==
    LET old_qty == p.qty
        qty == IF fill.side = "BUY" THEN old_qty + fill.qty ELSE old_qty - fill.qty
        total_cost == FAdd(FMulInt(p.avg_price, Abs(old_qty)), FMulInt(fill.price, fill.qty))
        avg_price == FDivInt(total_cost, Abs(qty))
    IN  IF p = NoPosition
        THEN [qty |-> IF fill.side = "BUY" THEN fill.qty ELSE -fill.qty,
              avg_price |-> fill.price,
              cost_basis |-> FMulInt(fill.price, fill.qty)]
        ELSE [qty |-> qty,
              avg_price |-> avg_price,
              cost_basis |-> FMulInt(avg_price, Abs(qty))]

BlendInit ==
    /\ risk_limits \in RiskLimitsChoices
    /\ initial_cash \in InitialCashChoices
    /\ cash = initial_cash
    /\ orders = <<>>
    /\ positions = [s \in {} |-> 0]
    /\ fills = <<>>
    /\ current_prices = [s \in {} |-> 0]
    /\ current_timestamp = 0
    /\ session = "market"
    /\ probe = [phase |-> "flat", adds |-> 0, position |-> NoPosition]

BlendOpen(fill) ==
    /\ probe.phase = "flat"
    /\ probe' = [phase |-> "held", adds |-> 0, before |-> NoPosition, fill |-> fill,
                 position |-> update_position_float(NoPosition, fill)]
    /\ UNCHANGED <<risk_limits, initial_cash, cash, orders, positions, fills,
                   current_prices, current_timestamp, session>>

BlendAdd(fill) ==
    /\ probe.phase = "held"
    /\ probe.adds < MaxAdds
    /\ fill.side = IF probe.position.qty > 0 THEN "BUY" ELSE "SELL"
    /\ probe' = [phase |-> "held", adds |-> probe.adds + 1, before |-> probe.position,
                 fill |-> fill,
                 position |-> update_position_float(probe.position, fill)]
    /\ UNCHANGED <<risk_limits, initial_cash, cash, orders, positions, fills,
                   current_prices, current_timestamp, session>>

BlendNext ==
    \/ \E fill \in BlendFills : BlendOpen(fill)
    \/ \E fill \in BlendFills : BlendAdd(fill)

BlendSpec == BlendInit /\ [][BlendNext]_vars

\* The cost the last fill blends: avg_price before * |qty before| + fill
\* price * fill qty, in floats.
BlendedCost ==
    FAdd(FMulInt(probe.before.avg_price, Abs(probe.before.qty)),
         FMulInt(probe.fill.price, probe.fill.qty))

\* The position was added to by the last fill.
Added == probe.phase = "held" /\ probe.adds > 0

\* C26 (as claimed): after a fill in the direction of a non-zero position,
\* avg_price * |qty| equals avg_price before * |qty before| + fill price * fill
\* qty, and cost_basis equals avg_price * |qty|.
C26_BlendExact ==
    Added =>
        /\ FMulInt(probe.position.avg_price, Abs(probe.position.qty)) = BlendedCost
        /\ probe.position.cost_basis =
               FMulInt(probe.position.avg_price, Abs(probe.position.qty))

\* C26 (amended): after a fill in the direction of a non-zero position,
\* cost_basis equals avg_price * |qty|, and avg_price * |qty| is the blended
\* cost avg_price before * |qty before| + fill price * fill qty or one of the
\* two floats next to it.
C26_BlendWithinRounding ==
    Added =>
        /\ probe.position.cost_basis =
               FMulInt(probe.position.avg_price, Abs(probe.position.qty))
        /\ probe.position.cost_basis \in
               {BlendedCost, FSucc(BlendedCost), FPred(BlendedCost)}
        /\ Abs(probe.position.qty) = Abs(probe.before.qty) + probe.fill.qty

C26_Witness ==
    /\ Added
    /\ probe.adds = MaxAdds
    /\ probe.fill.price # probe.before.avg_price
    /\ probe.position.cost_basis # BlendedCost

\* --------------------------------------------------------- constructing a Bar
\* The fields of Bar in the order of their declaration, which is the order in
\* which they are validated; `values` holds the fields validated so far.
BarFields == <<"ts", "open", "high", "low", "close", "volume">>

\* The keyword arguments a caller can hand to Bar(...).
BarData ==
    [ts : Timestamps, open : 0..MaxPrice, high : 0..MaxPrice, low : 0..MaxPrice,
     close : 0..MaxPrice, volume : Volumes]

\* Field(..., gt=0) of the four prices, Field(..., ge=0) of the volume.
FieldConstraint(name, v) ==
    IF name \in {"open", "high", "low", "close"} THEN v > 0
    ELSE IF name = "volume" THEN v >= 0
    ELSE TRUE

\* The validator of `high`: TRUE when it raises ValueError.
high_ge_low(v, values) == "low" \in DOMAIN values /\ v < values["low"]

RECURSIVE ValidateFields(_, _, _, _)
ValidateFields(data, k, values, errors) ==
    IF k > Len(BarFields) THEN [values |-> values, errors |-> errors]
    ELSE LET name == BarFields[k]
             v == data[name]
             ok == /\ FieldConstraint(name, v)
                   /\ name = "high" => ~high_ge_low(v, values)
         IN  IF ok
             THEN ValidateFields(data, k + 1, (name :> v) @@ values, errors)
             ELSE ValidateFields(data, k + 1, values, errors \cup {name})

\* Bar(**data): raises ValidationError when any field failed.
BarConstruct(data) ==
    LET r == ValidateFields(data, 1, [name \in {} |-> 0], {})
    IN  [raised |-> r.errors # {}, errors |-> r.errors, bar |-> r.values]

\* C27: constructing a Bar whose high is lower than its low raises a
\* validation error, and every bar handed to process_bar has high >= low.
C27_BarHighGeLow ==
    /\ \A data \in BarData : data.high < data.low => BarConstruct(data).raised
    /\ \A call \in BarCalls : call[2].high >= call[2].low

\* C28: status and quantities of every order agree: FILLED exactly when
\* nothing remains; a NEW or WORKING order has filled nothing and has no
\* fill in the log; a PARTIALLY_FILLED order has filled some but not all of
\* its quantity; avg_fill_price is set exactly when something was filled.
C28_StatusCoherent ==
    \A i \in 1..Len(orders) :
        LET order == orders[i]
        IN  /\ order.status = "FILLED" <=> order.remaining_qty = 0
            /\ order.status \in {"NEW", "WORKING"} =>
                   /\ order.filled_qty = 0
                   /\ \A k \in 1..Len(fills) : fills[k].order_id # order.id
            /\ order.status = "PARTIALLY_FILLED" =>
                   /\ 0 < order.filled_qty
                   /\ order.filled_qty < order.qty
            /\ order.avg_fill_price # NoneRat <=> order.filled_qty > 0

C28_Witness ==
    /\ \E i \in 1..Len(orders) :
           /\ orders[i].status = "CANCELED"
           /\ orders[i].filled_qty > 0
           /\ orders[i].remaining_qty > 0
    /\ \E i \in 1..Len(orders) : orders[i].status = "FILLED"

\* C29: in every history of submit_order, process_bar and cancel_order calls
\* the number of symbols with a non-zero position is at most
\* risk_limits.max_symbols (every order of the registry passed the risk check).
C29_MaxSymbolsEffective ==
    Cardinality(HeldSymbols) <= risk_limits.max_symbols

\* get_account() called in the engine state st (as reached inside or after a
\* call): the fields the claims below compare.
RECURSIVE PositionsValueIn(_, _, _)
PositionsValueIn(ps, prices, S) ==
    IF S = {} THEN 0
    ELSE LET s == CHOOSE y \in S : TRUE
             price == IF s \in DOMAIN prices THEN prices[s] ELSE ps[s].current_price
         IN  Abs(ps[s].qty) * price + PositionsValueIn(ps, prices, S \ {s})

get_account_in(st) ==
    LET pv == PositionsValueIn(st.positions, st.current_prices, DOMAIN st.positions)
        unrealized == UnrealizedOf(st.positions, DOMAIN st.positions)
        equity == RAdd(RAdd(st.cash, I(pv)), unrealized)
    IN  [cash |-> st.cash,
         equity |-> equity,
         buying_power |-> RMax(I(0), RSub(RMul(equity, risk_limits.max_leverage), I(pv))),
         positions_value |-> pv,
         unrealized_pnl |-> unrealized]

\* C30: when no position is open and a process_bar call fills a SELL that
\* takes a symbol from flat to short, the equity and the buying power that
\* get_account reports after the call are no greater than before it.
C30_ShortCreatesNoEquity ==
    HeldSymbols = {} =>
        \A before \in {get_account}, call \in BarCalls :
            \A r \in {process_bar(call[1], call[2], call[3])} :
                (/\ ~r.raised
                 /\ Len(r.ret) > 0
                 /\ \A k \in 1..Len(r.ret) : r.ret[k].side = "SELL"
                 /\ r.positions[call[1]].qty < 0)
                => \A after \in {get_account_in(r)} :
                       /\ RLe(after.equity, before.equity)
                       /\ RLe(after.buying_power, before.buying_power)

====
